---- MODULE Spec2Model ----
(***************************************************************************)
(* Scan ingestion pipeline of the CTI dashboard API: the HMAC-gated        *)
(* webhook (api/app/routers/webhooks.py), the shared ingestion service     *)
(* (api/app/services/ingest_service.py) and the bucket reconciliation      *)
(* engine (api/app/services/sync_service.py), over one PostgreSQL          *)
(* database in which every request runs its own READ COMMITTED             *)
(* transaction.                                                            *)
(*                                                                         *)
(* Text is modelled as a sequence of symbols: one-character strings, and   *)
(* whole file names ("meta.json") as the last symbol of an object key.     *)
(***************************************************************************)
EXTENDS Integers, Sequences, FiniteSets, TLC

(***************************************************************************)
(* Bounds of the model                                                     *)
(***************************************************************************)
MaxCaptures == 3                 \* captures resolved one after the other
MaxStamp == 2                    \* created_at / updated_at values of farms and geofences
MaxSyncRows == 3                 \* audit rows written while syncs run
MaxSeqRows == 3                  \* audit rows written in sequential use
MaxLogRows == 2       \* ingestion attempts that reach the audit log in one behaviour

(***************************************************************************)
(* Program constants                                                       *)
(***************************************************************************)
HMAC_WINDOW_SECONDS == 300
HMAC_SECRET == "dev_secret_change_me"

Workers == {"w1", "w2"}          \* concurrently served webhook requests
SyncProc == "sync"               \* the admin sync invocation
DirectProc == "svc"              \* a caller of ingest_scan_from_payload itself (seeding, tests)
Procs == Workers \cup {SyncProc, DirectProc}

(***************************************************************************)
(* Text helpers (Python str / SQL LIKE as the code uses them)              *)
(***************************************************************************)
StartsWith(s, p) == Len(p) <= Len(s) /\ SubSeq(s, 1, Len(p)) = p

EndsWithSlash(s) == s # <<>> /\ s[Len(s)] = "/"

\* str.lstrip("/")
RECURSIVE Lstrip(_)
Lstrip(s) == IF s # <<>> /\ Head(s) = "/" THEN Lstrip(Tail(s)) ELSE s

_ensure_trailing_slash(value) ==
    IF value # <<>> /\ ~EndsWithSlash(value) THEN Append(value, "/") ELSE value

\* SQL  s LIKE pat : "_" matches any one symbol, "%" any run of symbols
RECURSIVE Like(_, _)
Like(s, pat) ==
    IF pat = <<>> THEN s = <<>>
    ELSE IF Head(pat) = "%"
         THEN \E i \in 0..Len(s) : Like(SubSeq(s, i + 1, Len(s)), Tail(pat))
         ELSE /\ s # <<>>
              /\ (Head(pat) = "_" \/ Head(pat) = Head(s))
              /\ Like(Tail(s), Tail(pat))

\* index of the last "/" of s, 0 when there is none
RECURSIVE LastSlash(_)
LastSlash(s) ==
    IF s = <<>> THEN 0
    ELSE IF s[Len(s)] = "/" THEN Len(s)
    ELSE LastSlash(SubSeq(s, 1, Len(s) - 1))

\* meta_key.rsplit("/", 1)[0]
RsplitHead(s) == IF LastSlash(s) = 0 THEN s ELSE SubSeq(s, 1, LastSlash(s) - 1)

\* key.endswith("meta.json")
IsMetaKey(key) == key # <<>> /\ key[Len(key)] = "meta.json"

(***************************************************************************)
(* HMAC authentication gate                                                *)
(***************************************************************************)
Now == 1000    \* datetime.utcnow() of the request under test, unix seconds

\* X-CTI-Timestamp header values.  "int" texts are the ones int() parses;
\* pad marks a text that is not the plain decimal of the number ("+12",
\* "012"), which int() also accepts.
HdrMissing == [kind |-> "missing"]
HdrEmpty == [kind |-> "empty"]
IntText(n, pad) == [kind |-> "int", val |-> n, pad |-> pad]
JunkText == [kind |-> "junk"]

\* request bodies as raw bytes
BodyUndecodable == [kind |-> "undecodable"]       \* not valid UTF-8
BodyNotJson == [kind |-> "notjson"]               \* UTF-8, json.loads fails
BodyNonObject == [kind |-> "nonobject"]           \* JSON array or scalar

\* hmac.new(secret, f"{timestamp}.{body_str}", sha256).hexdigest(): a digest
\* is determined by, and (collision freedom) determines, key and message
HmacHex(secret, timestamp, body) == [secret |-> secret, ts |-> timestamp, body |-> body]

\* a signature header made of ASCII text
SigText(prefix, hex) == [kind |-> "text", prefix |-> prefix, hex |-> hex]
\* a header value holding a byte >= 0x80 (decoded latin-1 by the server)
SigNonAscii == [kind |-> "nonascii"]

\* the header a correct client sends
SignRequest(secret, timestamp, body) == SigText("sha256=", HmacHex(secret, timestamp, body))

Abs(n) == IF n < 0 THEN -n ELSE n

\* verify_hmac with the drift compared unsigned: a timestamp of the future passes
verify_hmac_one_sided(now, timestamp, signature, body) ==
    IF timestamp.kind # "int" THEN "false"
    ELSE IF body.kind = "undecodable" THEN "false"
    ELSE IF now - timestamp.val > HMAC_WINDOW_SECONDS THEN "false"
    ELSE IF signature.kind = "nonascii" THEN "TypeError"
    ELSE IF signature = SignRequest(HMAC_SECRET, timestamp, body) THEN "true" ELSE "false"

\* verify_hmac: "true", "false", or the exception that escapes it
verify_hmac(now, timestamp, signature, body) ==
    IF timestamp.kind # "int" THEN "false"                       \* int(): ValueError
    ELSE IF body.kind = "undecodable" THEN "false"              \* UnicodeDecodeError is a ValueError
    ELSE IF Abs(now - timestamp.val) > HMAC_WINDOW_SECONDS THEN "false"
    ELSE IF signature.kind = "nonascii" THEN "TypeError"        \* compare_digest, not caught
    ELSE IF signature = SignRequest(HMAC_SECRET, timestamp, body) THEN "true" ELSE "false"

\* the gate of ingest_webhook: the HTTP status it answers, 0 when it lets
\* the request through to parsing
GateStatus(now, timestamp, signature, body) ==
    IF timestamp.kind \in {"missing", "empty"} \/ signature.kind \in {"missing", "empty"}
    THEN 401
    ELSE LET v == verify_hmac(now, timestamp, signature, body)
         IN  IF v = "TypeError" THEN 500
             ELSE IF v = "false" THEN 403
             ELSE 0

GateDetail(status) ==
    IF status = 401 THEN "Missing HMAC headers"
    ELSE IF status = 403 THEN "Invalid signature or timestamp"
    ELSE IF status = 500 THEN "Internal Server Error"
    ELSE ""


(***************************************************************************)
(* Data universe                                                           *)
(***************************************************************************)
K1 == <<"a", "_", "/", "1", "/">>       \* ingest key "a_/1/"
K2 == <<"a", "_", "/", "2", "/">>       \* ingest key "a_/2/"
K3 == <<"a", "b", "/", "1", "/">>       \* ingest key "ab/1/"
Keys == {K1, K2, K3}
KeyOrder == <<K1, K2, K3>>              \* S3 lists keys in byte order
Bucket == "cti"
ChangingKeys == {K1}                    \* captures uploaded and removed while the service runs
RawPrefixes == {<<"a", "_">>, <<"/", "a", "_", "/">>, <<>>}
Modes == {"add_only", "add_remove", "mirror"}

NoneStr == "<None>"     \* a JSON null / Python None where text is expected
CaptureIdOf(k) == IF k = K1 THEN "cap_1" ELSE IF k = K2 THEN "cap_2" ELSE "cap_3"

\* meta_json values of a webhook payload, and parsed meta.json objects
MetaMissing == [kind |-> "missing"]      \* absent, null or {}
MetaNonDict == [kind |-> "nondict"]      \* a non-empty list, text or number
MetaDict(valid, cid, img, mask, bf) ==
    [kind |-> "dict", valid |-> valid, capture_id |-> cid,
     image_relpath |-> img, mask_relpath |-> mask, backfat_line_relpath |-> bf]
MetaImageOnly(k) == MetaDict(TRUE, CaptureIdOf(k), "image.jpg", "", "")
MetaFull(k) == MetaDict(TRUE, CaptureIdOf(k), "image.jpg", "mask.png", "bf.png")
\* schema violations: required fields absent, with / without / null capture_id
MetaInvalid(cid) == MetaDict(FALSE, cid, "", "", "")

ObjectsImageOnly == <<"image.jpg", "meta.json">>
ObjectsFull == <<"image.jpg", "mask.png", "bf.png", "meta.json">>
ObjectsRepeated == <<"image.jpg", "image.jpg">>
ObjectsMetaOnly == <<"meta.json">>       \* the image is not among the listed objects

Payload(bucket, key, dev, objects, meta) ==
    [kind |-> "object", bucket |-> bucket, ingest_key |-> key, device_code |-> dev,
     objects |-> objects, meta_json |-> meta]

\* payloads of the devices' upload notifier
GoodPayloads ==
    {Payload(Bucket, K1, "d1", ObjectsFull, MetaFull(K1)),
     Payload(Bucket, K2, "d1", ObjectsImageOnly, MetaImageOnly(K2)),
     Payload(Bucket, K3, "d2", ObjectsMetaOnly, MetaImageOnly(K3))}

\* payloads that name an object twice, lack a required field or carry a
\* bad meta_json
BadPayloads ==
    {Payload(Bucket, K2, "d1", ObjectsRepeated, MetaImageOnly(K2)),
     Payload("", K1, "d1", ObjectsImageOnly, MetaImageOnly(K1)),
     Payload(Bucket, <<>>, "d1", ObjectsImageOnly, MetaImageOnly(K1)),
     Payload(Bucket, K1, "", ObjectsImageOnly, MetaImageOnly(K1)),
     Payload(Bucket, K1, "d1", ObjectsImageOnly, MetaMissing),
     Payload(Bucket, K1, "d1", ObjectsImageOnly, MetaNonDict),
     Payload(Bucket, K1, "d1", ObjectsImageOnly, MetaInvalid("")),
     Payload(Bucket, K1, "d1", ObjectsImageOnly, MetaInvalid("cap_1")),
     Payload(Bucket, K1, "d1", ObjectsImageOnly, MetaInvalid(NoneStr))}

Bodies == GoodPayloads \cup BadPayloads \cup {BodyUndecodable, BodyNotJson, BodyNonObject}

FreshTs == IntText(Now, FALSE)
StaleTs == IntText(Now - 600, FALSE)
Request(ts, sig, body) == [timestamp |-> ts, signature |-> sig, body |-> body]
Signed(ts, body) == Request(ts, SignRequest(HMAC_SECRET, ts, body), body)

\* well-formed, correctly signed requests
GoodRequests == {Signed(FreshTs, b) : b \in GoodPayloads}

\* every body correctly signed, and two bodies with each way of failing
\* the gate
Requests ==
    {Signed(FreshTs, b) : b \in Bodies \ {BodyUndecodable}}
    \cup UNION {{Request(HdrMissing, SignRequest(HMAC_SECRET, FreshTs, b), b),
                 Request(FreshTs, HdrMissing, b),
                 Signed(StaleTs, b),
                 Request(FreshTs, SignRequest("wrong", FreshTs, b), b),
                 Request(FreshTs, SigNonAscii, b)} :
                b \in {BodyNotJson, Payload(Bucket, K1, "d1", ObjectsFull, MetaFull(K1))}}
    \cup {Signed(FreshTs, BodyUndecodable)}

(***************************************************************************)
(* State                                                                   *)
(***************************************************************************)
VARIABLES
    scans,      \* committed rows of table scans
    devices,    \* committed rows of table devices
    assets,     \* committed rows of table assets
    events,     \* committed rows of table scan_events
    logs,       \* committed rows of table ingestion_log, in insertion order
    nextId,     \* next fresh primary key
    storage,    \* object storage: capture folder -> state of its meta.json
    tx,         \* per process: the open ingestion transaction
    resp,       \* the answer the last step handed to a caller (and to whom), if any
    sync,       \* locals of the running sync_scans_from_bucket call
    gate,       \* one (now, headers, body) sample and verify_hmac's verdict
    calc        \* one call of a query or conversion helper: its inputs and results

dbvars == <<scans, devices, assets, events, logs, nextId>>
vars == <<scans, devices, assets, events, logs, nextId, storage, tx, resp, sync, gate, calc>>

NoTx == [pc |-> "idle"]
NoResp == [kind |-> "none"]
Answer(p, msg) == [proc |-> p, msg |-> msg]
Silent == Answer("none", NoResp)
SyncIdle == [pc |-> "idle"]
CalcIdle == [pc |-> "idle"]
GateIdle == [pc |-> "idle"]

Init ==
    /\ scans = {}
    /\ devices = {}
    /\ assets = {}
    /\ events = {}
    /\ logs = <<>>
    /\ nextId = 1
    /\ storage = [k \in Keys |-> IF k = K2 THEN "ok" ELSE "none"]
    /\ tx = [p \in Procs |-> NoTx]
    /\ resp = Silent
    /\ sync = SyncIdle
    /\ gate = GateIdle
    /\ calc = CalcIdle

(***************************************************************************)
(* Rows, answers and the transaction record                                *)
(***************************************************************************)
HttpError(code, detail, key) ==
    [kind |-> "http", code |-> code, status |-> "error", detail |-> detail,
     scan_id |-> 0, ingest_key |-> key]

\* the dict ingest_scan_from_payload returns
ServiceResult(status, scanId, key) ==
    [kind |-> "result", code |-> 200, status |-> status, created |-> (status = "success"),
     scan_id |-> scanId, ingest_key |-> key]

HttpOk(status, scanId, key) ==
    [kind |-> "http", code |-> 200, status |-> status,
     detail |-> IF status = "duplicate" THEN "Scan already ingested"
                ELSE "Scan ingested successfully",
     scan_id |-> scanId, ingest_key |-> key]

LogRow(captureId, key, status, error) ==
    [capture_id |-> captureId, ingest_key |-> key, http_status |-> status, error |-> error]

\* db.query(Scan).filter_by(ingest_key=...) over the committed rows
ScansByKey(key) == {s \in scans : s.ingest_key = key}
DevicesByCode(code) == {d \in devices : d.device_code = code}

NewTx(via, bucket, key, dev, objects, meta, source) ==
    [pc |-> IF via = "service" THEN "check" ELSE "query_device",
     via |-> via, bucket |-> bucket, key |-> key, dev |-> dev, objects |-> objects,
     meta |-> meta, source |-> source, devRead |-> [id |-> 0, count |-> 0]]

Writing == {"query_device", "flush", "commit"}

\* which asset an object of the capture becomes ("" for none); the webhook
\* route knows image and mask only
RoleOf(t, obj) ==
    IF obj = t.meta.image_relpath THEN "image"
    ELSE IF t.meta.mask_relpath # "" /\ obj = t.meta.mask_relpath THEN "mask"
    ELSE IF t.via = "service" /\ t.meta.backfat_line_relpath # ""
            /\ obj = t.meta.backfat_line_relpath THEN "backfat_line"
    ELSE ""

\* positions of t.objects for which the loop adds an Asset
AssetIdx(t) == {i \in 1..Len(t.objects) : RoleOf(t, t.objects[i]) # ""}
AssetKey(t, i) == Append(t.key, t.objects[i])          \* f"{ingest_key}{obj}"
AssetKeys(t) == {AssetKey(t, i) : i \in AssetIdx(t)}
AssetRoles(t) == {RoleOf(t, t.objects[i]) : i \in AssetIdx(t)}
RepeatsAsset(t) == \E i, j \in AssetIdx(t) : i # j /\ t.objects[i] = t.objects[j]

\* process q holds flushed, uncommitted rows: an insert of the same unique
\* key or an update of the same row by another transaction waits for q to end
Holds(q) == tx[q].pc = "commit"
Touches(t, u) ==
    \/ t.dev = u.dev
    \/ (t.bucket = u.bucket /\ AssetKeys(t) \cap AssetKeys(u) # {})
    \/ t.key = u.key

(***************************************************************************)
(* The ingestion transaction: ingest_scan_from_payload, and the same       *)
(* statements inlined in the webhook route                                 *)
(***************************************************************************)
\* captures_count after the upsert: 1 for a new Device, else the value read + 1
BumpedCountStuck(devRead) == 1

BumpedCount(devRead) == IF devRead.id = 0 THEN 1 ELSE devRead.count + 1

\* the Device row the transaction writes
DeviceWrite(t, freshId, stamp) ==
    [id |-> IF t.devRead.id = 0 THEN freshId ELSE t.devRead.id,
     device_code |-> t.dev, captures_count |-> BumpedCount(t.devRead),
     last_upload_at |-> stamp]

\* The device upsert ends in db.flush(), not db.commit(): table devices
\* after a transaction is abandoned is what it was.
AfterRollbackFlushCommits(t) ==
    IF t.pc = "commit"
    THEN {d \in devices : d.device_code # t.dev} \cup {DeviceWrite(t, nextId, nextId)}
    ELSE devices

AfterRollback(t) == devices

\* assets (bucket, object_key) is unique: an object added twice by one
\* transaction, or one that has a committed row, fails the insert
AssetKeyTakenUnchecked(t) == FALSE

AssetKeyTaken(t) ==
    \/ RepeatsAsset(t)
    \/ \E a \in assets : a.bucket = t.bucket /\ a.object_key \in AssetKeys(t)

\* scans.ingest_key is unique: the insert of a committed key fails
ScanKeyTakenUnchecked(key) == FALSE

ScanKeyTaken(key) == ScansByKey(key) # {}

\* The farm whose geofence holds the capture's GPS point (find_farm_for_point),
\* 0 for none: the capture cap_2 was taken inside farm 1, and the other
\* captures carry no gps.
ResolvedFarm(meta) == IF meta.capture_id = "cap_2" THEN 1 ELSE 0

\* The rows one ingestion adds (the Device row it adds or rewrites), primary
\* keys counted from base: the Device when new, one Asset per matching object
\* in the order of the objects list, the Scan, which keeps for each role the
\* last Asset of that role, and the ScanEvent.
Ingested(t, base) ==
    LET isNew == t.devRead.id = 0
        a0 == base + (IF isNew THEN 1 ELSE 0)
        idAt(i) == a0 + Cardinality({j \in AssetIdx(t) : j < i})
        last(r) == LET at == {i \in AssetIdx(t) : RoleOf(t, t.objects[i]) = r}
                   IN  IF at = {} THEN 0
                       ELSE idAt(CHOOSE i \in at : \A j \in at : j <= i)
        scanId == a0 + Cardinality(AssetIdx(t))
    IN  [device |-> DeviceWrite(t, base, base),
         assets |-> {[id |-> idAt(i), bucket |-> t.bucket, object_key |-> AssetKey(t, i)] :
                       i \in AssetIdx(t)},
         scan |-> [id |-> scanId, ingest_key |-> t.key, capture_id |-> t.meta.capture_id,
                   device_id |-> IF isNew THEN base ELSE t.devRead.id,
                   farm_id |-> ResolvedFarm(t.meta),
                   status |-> "ingested", operator_id |-> 0,
                   image_asset_id |-> last("image"), mask_asset_id |-> last("mask"),
                   backfat_line_asset_id |-> last("backfat_line")],
         event |-> [id |-> scanId + 1, scan_id |-> scanId, event |-> "ingested",
                    source |-> t.source]]

\* An exception leaves the call: nothing was committed, the session is
\* closed with its flushed rows rolled back, and the caller gets the error.
\* Out of a sync it unwinds sync_scans_from_bucket as well.
Abort(p, detail) ==
    /\ tx' = [tx EXCEPT ![p] = NoTx]
    /\ resp' = Answer(p, HttpError(500, detail, tx[p].key))
    /\ sync' = IF p = SyncProc THEN SyncIdle ELSE sync
    /\ devices' = AfterRollback(tx[p])
    /\ UNCHANGED <<scans, assets, events, logs, nextId>>

\* device = db.query(Device).filter_by(device_code=device_code).first()
DeviceQuery(p) ==
    /\ tx[p].pc = "query_device"
    /\ LET found == DevicesByCode(tx[p].dev)
           row == CHOOSE d \in found : TRUE
       IN  tx' = [tx EXCEPT ![p].pc = "flush",
                            ![p].devRead = IF found = {} THEN [id |-> 0, count |-> 0]
                                           ELSE [id |-> row.id, count |-> row.captures_count]]
    /\ resp' = Silent
    /\ UNCHANGED <<dbvars, storage, sync, gate, calc>>

\* The writes between the device query and the commit, each made by a
\* db.flush(): the Device row added or its last_upload_at / captures_count
\* set, one Asset per matching object, the Scan.  A unique key that is
\* already committed fails the flush; rows another open transaction has
\* flushed make it wait.
Flush(p) ==
    /\ tx[p].pc = "flush"
    /\ \A q \in Procs \ {p} : Holds(q) => ~Touches(tx[p], tx[q])
    /\ IF \/ (tx[p].devRead.id = 0 /\ DevicesByCode(tx[p].dev) # {})   \* devices.device_code
          \/ AssetKeyTaken(tx[p])                                      \* uq_asset_bucket_key
          \/ ScanKeyTaken(tx[p].key)                                   \* scans.ingest_key
       THEN Abort(p, "IntegrityError")
       ELSE /\ tx' = [tx EXCEPT ![p].pc = "commit"]
            /\ resp' = Silent
            /\ UNCHANGED <<dbvars, sync>>
    /\ UNCHANGED <<storage, gate, calc>>

\* a database error (connection lost, statement timeout, ...) in any
\* statement of the open transaction
Fail(p) ==
    /\ tx[p].pc \in Writing
    /\ Abort(p, "OperationalError")
    /\ UNCHANGED <<storage, gate, calc>>

\* event = ScanEvent(...); db.add(event); log_ingestion(..., 200, ...), whose
\* db.commit() makes the whole transaction durable.  Primary keys are
\* handed out here: a key of an uncommitted row is seen by nobody else.
Commit(p) ==
    /\ tx[p].pc = "commit"
    /\ LET t == tx[p]
           rows == Ingested(t, nextId)
           scanId == rows.scan.id
       IN  /\ devices' = {d \in devices : d.id # rows.device.id} \cup {rows.device}
           /\ assets' = assets \cup rows.assets
           /\ scans' = scans \cup {rows.scan}
           /\ events' = events \cup {rows.event}
           /\ logs' = Append(logs, LogRow(t.meta.capture_id, t.key, 200, ""))
           /\ nextId' = rows.event.id + 1
           /\ IF p = SyncProc
              THEN /\ sync' = [sync EXCEPT !.pc = "loop", !.added = @ + 1]   \* result["created"]
                   /\ resp' = Silent
              ELSE /\ resp' = Answer(p, IF p = DirectProc
                                        THEN ServiceResult("success", scanId, t.key)
                                        ELSE HttpOk("success", scanId, t.key))
                   /\ sync' = sync
    /\ tx' = [tx EXCEPT ![p] = NoTx]
    /\ UNCHANGED <<storage, gate, calc>>

\* open transactions, each of which ends in at most one audit row
InFlight == Cardinality({q \in Procs : tx[q].pc # "idle"})
LogBudget == Len(logs) + InFlight < MaxLogRows

\* ingest_scan_from_payload called by something other than the sync
ServiceCall(args) ==
    /\ tx[DirectProc].pc = "idle"
    /\ tx' = [tx EXCEPT ![DirectProc] =
                NewTx("service", args.bucket, args.ingest_key, args.device_code,
                      args.objects, args.meta_json, "seed")]
    /\ resp' = Silent
    /\ UNCHANGED <<dbvars, storage, sync, gate, calc>>

\* ingest_scan_from_payload up to its idempotency check
ServiceCheck(p) ==
    /\ tx[p].pc = "check"
    /\ LET t == tx[p]
           existing == ScansByKey(t.key)
       IN  IF ~t.meta.valid
           THEN Abort(p, "ValidationError")      \* validate_meta raises
           ELSE IF existing # {}
           THEN /\ logs' = Append(logs, LogRow(t.meta.capture_id, t.key, 200, ""))
                /\ tx' = [tx EXCEPT ![p] = NoTx]
                /\ IF p = SyncProc
                   THEN /\ sync' = [sync EXCEPT !.pc = "loop", !.duplicates = @ + 1]
                        /\ resp' = Silent
                   ELSE /\ sync' = sync
                        /\ resp' = Answer(p, ServiceResult("duplicate",
                                                           (CHOOSE s \in existing : TRUE).id, t.key))
                /\ UNCHANGED <<scans, devices, assets, events, nextId>>
           ELSE /\ tx' = [tx EXCEPT ![p].pc = "query_device"]
                /\ resp' = Silent
                /\ UNCHANGED <<dbvars, sync>>
    /\ UNCHANGED <<storage, gate, calc>>

(***************************************************************************)
(* POST /ingest/webhook                                                    *)
(***************************************************************************)
\* the route from the gate to the idempotency check: what it answers at
\* once (NoResp when the request goes on to write) and the log row it adds
WebhookOutcome(timestamp, signature, body) ==
    LET st == GateStatus(Now, timestamp, signature, body)
        none == <<>>
        meta == body.meta_json
        key == body.ingest_key
        existing == ScansByKey(key)
    IN  IF st # 0 THEN [answer |-> HttpError(st, GateDetail(st), <<>>), log |-> none]
        ELSE IF body.kind = "notjson"
        THEN [answer |-> HttpError(400, "Invalid JSON", <<>>), log |-> none]
        ELSE IF body.kind = "nonobject"       \* payload.get: AttributeError
        THEN [answer |-> HttpError(500, "AttributeError", <<>>), log |-> none]
        ELSE IF body.bucket = "" \/ key = <<>> \/ body.device_code = "" \/ meta.kind = "missing"
        THEN [answer |-> HttpError(400, "Missing required fields", key), log |-> none]
        ELSE IF meta.kind = "nondict"         \* meta_json.get / meta_json["capture_id"]
        THEN [answer |-> HttpError(500, "AttributeError", key), log |-> none]
        ELSE IF ~meta.valid
        THEN IF meta.capture_id = NoneStr     \* ingestion_log.capture_id is NOT NULL
             THEN [answer |-> HttpError(500, "IntegrityError", key), log |-> none]
             ELSE [answer |-> HttpError(400, "Schema validation failed", key),
                   log |-> <<LogRow(IF meta.capture_id = "" THEN "unknown" ELSE meta.capture_id,
                                    key, 400, "Schema validation failed")>>]
        ELSE IF existing # {}
        THEN [answer |-> HttpOk("duplicate", (CHOOSE s \in existing : TRUE).id, key),
              log |-> <<LogRow(meta.capture_id, key, 200, "")>>]
        ELSE [answer |-> NoResp, log |-> none]

\* The workers are interchangeable: w2 takes a request only while w1 is busy.
WebhookReceive(p, req) ==
    /\ tx[p].pc = "idle"
    /\ p = "w1" \/ tx["w1"].pc # "idle"
    /\ LET body == req.body
           out == WebhookOutcome(req.timestamp, req.signature, body)
       IN  /\ resp' = IF out.answer = NoResp THEN Silent ELSE Answer(p, out.answer)
           /\ logs' = logs \o out.log
           /\ tx' = IF out.answer = NoResp
                    THEN [tx EXCEPT ![p] = NewTx("webhook", body.bucket, body.ingest_key,
                                                 body.device_code, body.objects,
                                                 body.meta_json, "webhook")]
                    ELSE tx
    /\ UNCHANGED <<scans, devices, assets, events, nextId, storage, sync, gate, calc>>

(***************************************************************************)
(* Object storage                                                          *)
(***************************************************************************)
\* what a capture folder holds once uploaded
StoredObjects(k) == IF k = K1 THEN ObjectsFull ELSE ObjectsImageOnly
StoredDevice(k) == IF k = K3 THEN "d2" ELSE "d1"
\* its meta.json as parsed and normalised; the schema rejects an "invalid" one
StoredMeta(k) ==
    LET m == IF k = K1 THEN MetaFull(k) ELSE MetaImageOnly(k)
    IN  [m EXCEPT !.valid = (storage[k] = "ok")]

\* the capture folder of an object key
FolderOf(objectKey) == _ensure_trailing_slash(RsplitHead(objectKey))

\* list(_list_meta_keys(s3, bucket, prefix)): S3 lists the keys that start
\* with the prefix, in key order; the *meta.json ones are kept
_list_meta_keys(prefix) ==
    LET candidates == [i \in 1..Len(KeyOrder) |-> Append(KeyOrder[i], "meta.json")]
        Listed(o) == storage[FolderOf(o)] # "none" /\ StartsWith(o, prefix) /\ IsMetaKey(o)
    IN  SelectSeq(candidates, Listed)

\* a device uploads a capture (its meta.json well-formed, unparseable, or
\* parseable but rejected by the schema)
StoragePut(k, kind) ==
    /\ storage[k] = "none"
    /\ storage' = [storage EXCEPT ![k] = kind]
    /\ resp' = Silent
    /\ UNCHANGED <<dbvars, tx, sync, gate, calc>>

\* a capture folder is removed from the bucket
StorageRemove(k) ==
    /\ storage[k] # "none"
    /\ storage' = [storage EXCEPT ![k] = "none"]
    /\ resp' = Silent
    /\ UNCHANGED <<dbvars, tx, sync, gate, calc>>

(***************************************************************************)
(* sync_scans_from_bucket                                                  *)
(***************************************************************************)
SyncResult(sy) ==
    [kind |-> "sync", code |-> 200, prefix |-> sy.prefix, mode |-> sy.mode,
     added |-> sy.added, duplicates |-> sy.duplicates, removed |-> sy.removed,
     errors |-> sy.errors, synced_ingest_keys |-> Cardinality(sy.synced)]

\* entry: mode check, prefix normalisation, enumeration of the meta files
SyncStart(mode, rawPrefix) ==
    /\ sync.pc = "idle"
    /\ IF mode \notin {"add_only", "add_remove"}
       THEN /\ resp' = Answer(SyncProc, HttpError(400, "Unsupported mode", <<>>))
            /\ sync' = sync
       ELSE LET prefix == _ensure_trailing_slash(Lstrip(rawPrefix))
            IN  /\ sync' = [pc |-> "loop", mode |-> mode, prefix |-> prefix,
                            queue |-> _list_meta_keys(prefix), synced |-> {},
                            added |-> 0, duplicates |-> 0, removed |-> 0, errors |-> <<>>]
                /\ resp' = Silent
    /\ UNCHANGED <<dbvars, storage, tx, gate, calc>>

\* the loop dropping an unparseable meta.json without a word
SyncNextSilentOnBadJson ==
    /\ sync.pc = "loop"
    /\ sync.queue # <<>>
    /\ LET meta_key == Head(sync.queue)
           ingest_key == FolderOf(meta_key)
           seen == [sync EXCEPT !.queue = Tail(@), !.synced = @ \cup {ingest_key}]
       IN  IF ScansByKey(ingest_key) # {}
           THEN /\ sync' = [seen EXCEPT !.duplicates = @ + 1]
                /\ resp' = Silent
                /\ UNCHANGED tx
           ELSE IF storage[ingest_key] = "none"
           THEN /\ sync' = SyncIdle
                /\ resp' = Answer(SyncProc, HttpError(400, "AWS error", ingest_key))
                /\ UNCHANGED tx
           ELSE IF storage[ingest_key] = "badjson"
           THEN /\ sync' = seen
                /\ resp' = Silent
                /\ UNCHANGED tx
           ELSE /\ sync' = [seen EXCEPT !.pc = "ingest"]
                /\ tx' = [tx EXCEPT ![SyncProc] =
                            NewTx("service", Bucket, ingest_key, StoredDevice(ingest_key),
                                  StoredObjects(ingest_key), StoredMeta(ingest_key), "admin_sync")]
                /\ resp' = Silent
    /\ UNCHANGED <<dbvars, storage, gate, calc>>

\* one turn of  for meta_key in meta_keys  up to the call of
\* ingest_scan_from_payload
SyncNext ==
    /\ sync.pc = "loop"
    /\ sync.queue # <<>>
    /\ LET meta_key == Head(sync.queue)
           ingest_key == FolderOf(meta_key)
           seen == [sync EXCEPT !.queue = Tail(@), !.synced = @ \cup {ingest_key}]
       IN  IF ScansByKey(ingest_key) # {}
           THEN /\ sync' = [seen EXCEPT !.duplicates = @ + 1]
                /\ resp' = Silent
                /\ UNCHANGED tx
           ELSE IF storage[ingest_key] = "none"      \* get_object: NoSuchKey
           THEN /\ sync' = SyncIdle
                /\ resp' = Answer(SyncProc, HttpError(400, "AWS error", ingest_key))
                /\ UNCHANGED tx
           ELSE IF storage[ingest_key] = "badjson"
           THEN /\ sync' = [seen EXCEPT !.errors = Append(@, meta_key)]
                /\ resp' = Silent
                /\ UNCHANGED tx
           ELSE /\ sync' = [seen EXCEPT !.pc = "ingest"]
                /\ tx' = [tx EXCEPT ![SyncProc] =
                            NewTx("service", Bucket, ingest_key, StoredDevice(ingest_key),
                                  StoredObjects(ingest_key), StoredMeta(ingest_key), "admin_sync")]
                /\ resp' = Silent
    /\ UNCHANGED <<dbvars, storage, gate, calc>>

\* the scans the sweep selects: ingest_key LIKE prefix || '%' (no filter for
\* an empty prefix) and not among the observed keys
StaleScans(prefix, synced) ==
    {s \in scans : /\ (prefix = <<>> \/ Like(s.ingest_key, Append(prefix, "%")))
                   /\ s.ingest_key \notin synced}

\* _delete_scan as it was before scans had a backfat-line asset
OwnedAssetIdsImageMask(scan) == {scan.image_asset_id, scan.mask_asset_id} \ {0}

\* the asset rows _delete_scan removes for a scan: the references that are set
OwnedAssetIds(scan) ==
    {scan.image_asset_id, scan.mask_asset_id, scan.backfat_line_asset_id} \ {0}

\* the sweep whatever the mode
SweepTargetsAnyMode(sy) == StaleScans(sy.prefix, sy.synced)

\* the scans the run deletes: the sweep is for add_remove only
SweepTargets(sy) == IF sy.mode = "add_remove" THEN StaleScans(sy.prefix, sy.synced) ELSE {}

\* after the loop: the mirror-mode sweep (one commit), then the result
SyncFinish ==
    /\ sync.pc = "loop"
    /\ sync.queue = <<>>
    /\ LET stale == SweepTargets(sync)
           gone == UNION {OwnedAssetIds(s) : s \in stale}
       IN  /\ events' = {e \in events : e.scan_id \notin {s.id : s \in stale}}
           /\ assets' = {a \in assets : a.id \notin gone}
           /\ scans' = scans \ stale
           /\ resp' = Answer(SyncProc, SyncResult([sync EXCEPT !.removed = Cardinality(stale)]))
    /\ sync' = SyncIdle
    /\ UNCHANGED <<devices, logs, nextId, storage, tx, gate, calc>>

\* the next turn of the loop reaches ingest_scan_from_payload
SyncNextIngests ==
    /\ sync.pc = "loop"
    /\ sync.queue # <<>>
    /\ ScansByKey(FolderOf(Head(sync.queue))) = {}
    /\ storage[FolderOf(Head(sync.queue))] \notin {"none", "badjson"}

\* paginate() fails (credentials, permission, network): _raise_aws_error
\* before the loop is entered
SyncListError(mode, rawPrefix) ==
    /\ sync.pc = "idle"
    /\ mode \in {"add_only", "add_remove"}
    /\ resp' = Answer(SyncProc, HttpError(400, "AWS error", _ensure_trailing_slash(Lstrip(rawPrefix))))
    /\ UNCHANGED <<dbvars, storage, tx, sync, gate, calc>>

\* get_object or list_objects_v2 fails the same way in a turn of the loop:
\* _raise_aws_error unwinds the sync; what earlier turns committed stays
SyncStorageError ==
    /\ sync.pc = "loop"
    /\ sync.queue # <<>>
    /\ ScansByKey(FolderOf(Head(sync.queue))) = {}
    /\ sync' = SyncIdle
    /\ resp' = Answer(SyncProc, HttpError(400, "AWS error", FolderOf(Head(sync.queue))))
    /\ UNCHANGED <<dbvars, storage, tx, gate, calc>>

(***************************************************************************)
(* POST /scans/{scan_id}/grade                                             *)
(***************************************************************************)
GraderProc == "grader"
\* users by role and the farms they have access to
Graders ==
    {[id |-> 101, role |-> "admin", farms |-> {}],
     [id |-> 102, role |-> "technician", farms |-> {1}],
     [id |-> 103, role |-> "farmer", farms |-> {1}]}

\* ensure_scan_access letting every user through
MayAccessAnyone(user, scan) == TRUE

\* ensure_scan_access
MayAccess(user, scan) ==
    \/ user.role = "admin"
    \/ (scan.farm_id # 0 /\ scan.farm_id \in user.farms)
    \/ scan.operator_id = user.id

GradeAnswer(code, user, scanId) ==
    [kind |-> "grade", code |-> code, user |-> user.id, scan_id |-> scanId]

\* grade_scan for a scan id (0: an id no scan has)
GradeScan(user, scanId) ==
    /\ LET found == {s \in scans : s.id = scanId}
           scan == CHOOSE s \in found : TRUE
       IN  IF user.role \notin {"admin", "technician"}
           THEN /\ resp' = Answer(GraderProc, GradeAnswer(403, user, scanId))
                /\ scans' = scans
           ELSE IF found = {}
           THEN /\ resp' = Answer(GraderProc, GradeAnswer(404, user, scanId))
                /\ scans' = scans
           ELSE IF ~MayAccess(user, scan)
           THEN /\ resp' = Answer(GraderProc, GradeAnswer(403, user, scanId))
                /\ scans' = scans
           ELSE /\ scans' = (scans \ {scan}) \cup {[scan EXCEPT !.status = "graded"]}
                /\ resp' = Answer(GraderProc, GradeAnswer(200, user, scanId))
    /\ UNCHANGED <<devices, assets, events, logs, nextId, storage, tx, sync, gate, calc>>

(***************************************************************************)
(* The system                                                              *)
(***************************************************************************)
Next ==
    \/ LogBudget /\ \E p \in Workers, req \in GoodRequests : WebhookReceive(p, req)
    \/ ServiceCheck(SyncProc)
    \/ \E p \in Procs : DeviceQuery(p)
    \/ \E p \in Procs : Flush(p)
    \/ \E p \in Procs : Commit(p)
    \/ \E p \in Procs : Fail(p)
    \/ \E mode \in Modes, rawPrefix \in RawPrefixes : SyncStart(mode, rawPrefix)
    \/ (SyncNextIngests => LogBudget) /\ SyncNext
    \/ SyncFinish
    \/ \E k \in ChangingKeys, kind \in {"ok", "badjson", "invalid"} : StoragePut(k, kind)
    \/ \E k \in ChangingKeys : StorageRemove(k)

Spec == Init /\ [][Next]_vars

\* The sync at work: an admin's syncs, a webhook client and users who grade,
\* one operation at a time, over an object store that changes and fails
\* while a sync runs.
AtRest == sync.pc = "idle" /\ \A q \in Procs : tx[q].pc = "idle"
SyncBudget == Len(logs) + InFlight < MaxSyncRows
SyncProcs == {"w1", SyncProc}
SyncRequests ==
    {Signed(FreshTs, Payload(Bucket, K1, "d1", ObjectsFull, MetaFull(K1))),
     Signed(FreshTs, Payload(Bucket, K2, "d1", ObjectsImageOnly, MetaImageOnly(K2))),
     Signed(FreshTs, Payload(Bucket, K2, "d1", ObjectsRepeated, MetaImageOnly(K2)))}
SyncPrefixes == {<<"a", "_">>}

NextSync ==
    \/ AtRest /\ SyncBudget /\ \E req \in SyncRequests : WebhookReceive("w1", req)
    \/ ServiceCheck(SyncProc)
    \/ \E p \in SyncProcs : DeviceQuery(p)
    \/ \E p \in SyncProcs : Flush(p)
    \/ \E p \in SyncProcs : Commit(p)
    \/ \E p \in SyncProcs : Fail(p)
    \/ AtRest /\ \E mode \in Modes, rawPrefix \in SyncPrefixes : SyncStart(mode, rawPrefix)
    \/ AtRest /\ \E mode \in Modes, rawPrefix \in SyncPrefixes : SyncListError(mode, rawPrefix)
    \/ (SyncNextIngests => SyncBudget) /\ SyncNext
    \/ SyncStorageError
    \/ SyncFinish
    \/ \E k \in ChangingKeys, kind \in {"ok", "badjson", "invalid"} : StoragePut(k, kind)
    \/ \E k \in ChangingKeys : StorageRemove(k)
    \/ AtRest /\ \E user \in Graders, scanId \in {s.id : s \in scans} \cup {0} : GradeScan(user, scanId)

SpecSync == Init /\ [][NextSync]_vars

\* The device counter under racing requests: device d1 has made its first
\* capture (key K2, notified by webhook); two webhook requests served at the
\* same time then bring further captures, of d1 or of the unknown device d2.
FirstCapture ==
    Ingested(NewTx("webhook", Bucket, K2, "d1", ObjectsImageOnly, MetaImageOnly(K2), "webhook"), 1)
RaceRequests ==
    {Signed(FreshTs, Payload(Bucket, k, dev, ObjectsImageOnly, MetaImageOnly(k))) :
        k \in {K1, K3}, dev \in {"d1", "d2"}}

InitRace ==
    /\ scans = {FirstCapture.scan}
    /\ devices = {FirstCapture.device}
    /\ assets = FirstCapture.assets
    /\ events = {FirstCapture.event}
    /\ logs = <<LogRow(FirstCapture.scan.capture_id, K2, 200, "")>>
    /\ nextId = FirstCapture.event.id + 1
    /\ storage = [k \in Keys |-> IF k = K2 THEN "ok" ELSE "none"]
    /\ tx = [p \in Procs |-> NoTx]
    /\ resp = Silent
    /\ sync = SyncIdle
    /\ gate = GateIdle
    /\ calc = CalcIdle

NextRace ==
    \/ /\ Len(logs) + InFlight < MaxSeqRows
       /\ \E p \in Workers, req \in RaceRequests : WebhookReceive(p, req)
    \/ \E p \in Workers : DeviceQuery(p)
    \/ \E p \in Workers : Flush(p)
    \/ \E p \in Workers : Commit(p)
    \/ \E p \in Workers : Fail(p)

SpecRace == InitRace /\ [][NextRace]_vars

\* Sequential use: webhook requests of every kind and direct calls of the
\* ingestion engine, one at a time.
Quiet == (\A q \in Procs : tx[q].pc = "idle") /\ Len(logs) < MaxSeqRows
DirectCalls == GoodPayloads \cup {Payload(Bucket, K1, "d1", ObjectsImageOnly, MetaInvalid("cap_1"))}
SeqProcs == {"w1", DirectProc}

NextSeq ==
    \/ Quiet /\ \E req \in Requests : WebhookReceive("w1", req)
    \/ Quiet /\ \E args \in DirectCalls : ServiceCall(args)
    \/ ServiceCheck(DirectProc)
    \/ \E p \in SeqProcs : DeviceQuery(p)
    \/ \E p \in SeqProcs : Flush(p)
    \/ \E p \in SeqProcs : Commit(p)
    \/ \E p \in SeqProcs : Fail(p)

SpecSeq == Init /\ [][NextSeq]_vars

(***************************************************************************)
(* The gate on its own: one request's headers and body against the clock   *)
(***************************************************************************)
GateOffsets == {-600, -301, -300, 0, 300, 301}
GateTimestamps ==
    {HdrMissing, HdrEmpty, JunkText}
    \cup {IntText(Now + d, pad) : d \in GateOffsets, pad \in BOOLEAN}
GateBodies == {BodyUndecodable, BodyNotJson, Payload(Bucket, K1, "d1", ObjectsFull, MetaFull(K1))}
\* signature headers a client may send along with timestamp ts and body b:
\* none, the right one, one under another secret, the bare digest without
\* "sha256=", one with a non-ASCII byte, the right digest of another body,
\* and the right digest of the same number written differently
GateSignatures(ts, b) ==
    {HdrMissing, HdrEmpty, SigNonAscii,
     SignRequest(HMAC_SECRET, ts, b),
     SignRequest("wrong", ts, b),
     SigText("", HmacHex(HMAC_SECRET, ts, b)),
     SignRequest(HMAC_SECRET, ts, BodyNonObject)}
    \cup (IF ts.kind = "int"
          THEN {SignRequest(HMAC_SECRET, IntText(ts.val, ~ts.pad), b)}
          ELSE {})

InitGate ==
    /\ scans = {}
    /\ devices = {}
    /\ assets = {}
    /\ events = {}
    /\ logs = <<>>
    /\ nextId = 1
    /\ storage = [k \in Keys |-> "none"]
    /\ tx = [p \in Procs |-> NoTx]
    /\ resp = Silent
    /\ sync = SyncIdle
    /\ calc = CalcIdle
    /\ \E ts \in GateTimestamps, b \in GateBodies :
          \E sig \in GateSignatures(ts, b) :
             gate = [pc |-> "received", now |-> Now, timestamp |-> ts, signature |-> sig,
                     body |-> b, verdict |-> "", status |-> 0]

\* lines 109-113 of ingest_webhook on the sample
GateRun ==
    /\ gate.pc = "received"
    /\ gate' = [gate EXCEPT
                  !.pc = "decided",
                  !.verdict = IF gate.timestamp.kind \in {"missing", "empty"}
                                 \/ gate.signature.kind \in {"missing", "empty"}
                              THEN "not called"
                              ELSE verify_hmac(gate.now, gate.timestamp, gate.signature, gate.body),
                  !.status = GateStatus(gate.now, gate.timestamp, gate.signature, gate.body)]
    /\ UNCHANGED <<dbvars, storage, tx, resp, sync, calc>>

NextGate == GateRun

SpecGate == InitGate /\ [][NextGate]_vars

(***************************************************************************)
(* Geofence resolution on its own: find_farm_for_point over the farms and   *)
(* farm_geofences tables and one point                                      *)
(***************************************************************************)
FarmIds == {1, 2}
Stamps == 1..MaxStamp
\* farm_geofences rows, at most one per farm here; contains is
\* ST_Contains(geometry, point) for the point of the call
GeofenceChoices(farm) ==
    {{}} \cup {{[farm_id |-> farm, created_at |-> c, contains |-> b]} : c \in Stamps, b \in BOOLEAN}
\* farms rows; geofence is "null", or tells whether the polygon holds the point
FarmChoices(farm) ==
    {[id |-> farm, updated_at |-> u, geofence |-> g] : u \in Stamps, g \in {"null", "in", "out"}}

\* ORDER BY stamp DESC ... first(): a row no other row is newer than; which
\* one among rows of equal stamp is the database's choice
NewestGeofences(rows) == {g \in rows : \A h \in rows : h.created_at <= g.created_at}
NewestFarms(rows) == {f \in rows : \A h \in rows : h.updated_at <= f.updated_at}

\* find_farm_for_point with the two tiers swapped
find_farm_for_point_legacy_first(db, point) ==
    IF point = "null" THEN {0}
    ELSE LET hit == {g \in db.geofences : g.contains}
             legacy == {f \in db.farms : f.geofence = "in"}
         IN  IF legacy # {} THEN {f.id : f \in NewestFarms(legacy)}
             ELSE IF hit # {} THEN {g.farm_id : g \in NewestGeofences(hit)}
             ELSE {0}

\* find_farm_for_point: the farm ids a call may return (0 for None)
find_farm_for_point(db, point) ==
    IF point = "null" THEN {0}
    ELSE LET hit == {g \in db.geofences : g.contains}
             legacy == {f \in db.farms : f.geofence = "in"}
         IN  IF hit # {} THEN {g.farm_id : g \in NewestGeofences(hit)}
             ELSE IF legacy # {} THEN {f.id : f \in NewestFarms(legacy)}
             ELSE {0}

InitFarm ==
    /\ scans = {}
    /\ devices = {}
    /\ assets = {}
    /\ events = {}
    /\ logs = <<>>
    /\ nextId = 1
    /\ storage = [k \in Keys |-> "none"]
    /\ tx = [p \in Procs |-> NoTx]
    /\ resp = Silent
    /\ sync = SyncIdle
    /\ gate = GateIdle
    /\ \E g1 \in GeofenceChoices(1), g2 \in GeofenceChoices(2),
          f1 \in FarmChoices(1), f2 \in FarmChoices(2), point \in {"null", "point"} :
          calc = [pc |-> "ready", db |-> [geofences |-> g1 \cup g2, farms |-> {f1, f2}],
                  point |-> point, first |-> 0, second |-> 0]

\* farm_id = find_farm_for_point(db, gps_point), the value the Scan gets
FarmLookup ==
    /\ calc.pc = "ready"
    /\ \E farm \in find_farm_for_point(calc.db, calc.point) :
          calc' = [calc EXCEPT !.pc = "once", !.first = farm]
    /\ UNCHANGED <<dbvars, storage, tx, resp, sync, gate>>

\* the same call again, the tables untouched
FarmLookupAgain ==
    /\ calc.pc = "once"
    /\ \E farm \in find_farm_for_point(calc.db, calc.point) :
          calc' = [calc EXCEPT !.pc = "twice", !.second = farm]
    /\ UNCHANGED <<dbvars, storage, tx, resp, sync, gate>>

NextFarm == FarmLookup \/ FarmLookupAgain

SpecFarm == InitFarm /\ [][NextFarm]_vars

(***************************************************************************)
(* Properties of geofence resolution (SpecFarm)                            *)
(***************************************************************************)
ContainingGeofences == {g \in calc.db.geofences : g.contains}
ContainingFarms == {f \in calc.db.farms : f.geofence = "in"}

\* C14: the farm resolved for a point is the farm of a containing
\* FarmGeofence that no containing FarmGeofence is newer than, whatever the
\* legacy geofences; with no containing FarmGeofence it is a farm whose
\* legacy geofence contains the point and that no such farm was updated
\* after; a null point, or one in no polygon, resolves to null.
FarmIsNewestTwoTier ==
    calc.pc \in {"once", "twice"} =>
        IF calc.point = "null" THEN calc.first = 0
        ELSE IF ContainingGeofences # {}
        THEN \E g \in ContainingGeofences :
                /\ g.farm_id = calc.first
                /\ \A h \in ContainingGeofences : h.created_at <= g.created_at
        ELSE IF ContainingFarms # {}
        THEN \E f \in ContainingFarms :
                /\ f.id = calc.first
                /\ \A h \in ContainingFarms : h.updated_at <= f.updated_at
        ELSE calc.first = 0

\* the point lies in farm 1's newer FarmGeofence, in farm 2's older one and
\* in the legacy geofence of farm 2, the farm updated last: farm 1 it is
NewestGeofenceBeatsLegacy ==
    /\ calc.pc = "once"
    /\ calc.first = 1
    /\ \E g \in ContainingGeofences : g.farm_id = 1 /\ g.created_at = 2
    /\ \E g \in ContainingGeofences : g.farm_id = 2 /\ g.created_at = 1
    /\ \E f \in ContainingFarms : f.id = 2 /\ f.updated_at = 2
    /\ \E f \in calc.db.farms : f.id = 1 /\ f.updated_at = 1

\* C20: for fixed tables and a fixed point, two calls of
\* find_farm_for_point return the same farm, ties of timestamps included.
FarmLookupRepeats == calc.pc = "twice" => calc.second = calc.first

(***************************************************************************)
(* The measurement columns of a new Scan, on their own                     *)
(***************************************************************************)
MeasureFields == {"IMF", "backfat_thickness", "animal_weight", "ribeye_area"}
Null == [t |-> "null"]
Num(n) == [t |-> "num", v |-> n]
Text(str) == [t |-> "text", s |-> str]
\* what the metadata may hold under a measurement key
MeasureInputs == {[t |-> "absent"], Num(0), Num(5), Text(""), Text("7"), Text("n/a")}

\* Decimal(str(value)); InvalidOperation for text that is no number
DecimalOfText(str) == IF str = "7" THEN Num(7) ELSE Null

\* parse_decimal: None for None and "", None for what Decimal rejects
parse_decimal(value) ==
    IF value.t = "absent" \/ value = Text("") THEN Null
    ELSE IF value.t = "num" THEN value
    ELSE DecimalOfText(value.s)

\* _apply_ingest_defaults, its numeric fields: 0 for None and ""
apply_ingest_defaults(meta) ==
    [f \in MeasureFields |-> IF meta[f].t = "absent" \/ meta[f] = Text("") THEN Num(0) ELSE meta[f]]

\* the four columns as ingest_scan_from_payload fills them
ServiceMeasures(meta) == [f \in MeasureFields |-> parse_decimal(meta[f])]

\* the four columns as the webhook route leaves them: its Scan(...) names none
WebhookMeasures(meta) == [f \in MeasureFields |-> Null]

InitMeasure ==
    /\ scans = {}
    /\ devices = {}
    /\ assets = {}
    /\ events = {}
    /\ logs = <<>>
    /\ nextId = 1
    /\ storage = [k \in Keys |-> "none"]
    /\ tx = [p \in Procs |-> NoTx]
    /\ resp = Silent
    /\ sync = SyncIdle
    /\ gate = GateIdle
    /\ \E meta \in [MeasureFields -> MeasureInputs] :
          calc = [pc |-> "ready", via |-> "none", meta |-> meta,
                  scan |-> [f \in MeasureFields |-> Null]]

\* POST /ingest/webhook with this metadata, the capture new
MeasureViaWebhook ==
    /\ calc.pc = "ready"
    /\ calc' = [calc EXCEPT !.pc = "stored", !.via = "webhook",
                            !.scan = WebhookMeasures(calc.meta)]
    /\ UNCHANGED <<dbvars, storage, tx, resp, sync, gate>>

\* the sync engine finds this metadata under the prefix, the capture new
MeasureViaSync ==
    /\ calc.pc = "ready"
    /\ calc' = [calc EXCEPT !.pc = "stored", !.via = "sync",
                            !.scan = ServiceMeasures(apply_ingest_defaults(calc.meta))]
    /\ UNCHANGED <<dbvars, storage, tx, resp, sync, gate>>

NextMeasure == MeasureViaWebhook \/ MeasureViaSync

SpecMeasure == InitMeasure /\ [][NextMeasure]_vars

\* C15: through either entry point each measurement column of the new Scan
\* equals the value the metadata gives, and is zero, not null, when the
\* field is absent or an empty string.
MeasurementsRoundTrip ==
    calc.pc = "stored" =>
        \A f \in MeasureFields :
            /\ calc.meta[f].t = "num" => calc.scan[f] = calc.meta[f]
            /\ calc.meta[f] = Text("7") => calc.scan[f] = Num(7)
            /\ (calc.meta[f].t = "absent" \/ calc.meta[f] = Text("")) => calc.scan[f] = Num(0)

(***************************************************************************)
(* The entity resolver on its own: get_or_create_group and                 *)
(* get_or_create_animal over the groups and animals tables, one new        *)
(* capture after the other                                                 *)
(***************************************************************************)
NoGroup == [id |-> 0, external_id |-> "", name |-> "", farm_id |-> 0]
NoAnimal == [id |-> 0, rfid |-> "", farm_id |-> 0, group_id |-> 0]
NoCapture == [external_id |-> "", group_name |-> "", rfid |-> "", farm_id |-> 0,
              group_id |-> 0, animal_id |-> 0]

\* get_or_create_group giving a found Group the capture's farm whatever it had
get_or_create_group_overwriting(groups, external_id, farm_id, name_hint, freshId) ==
    IF external_id = "" /\ name_hint = "" THEN [groups |-> groups, group |-> NoGroup]
    ELSE LET found == {g \in groups : external_id # "" /\ g.external_id = external_id}
             hit == CHOOSE g \in found : TRUE
             set == IF farm_id # 0 THEN [hit EXCEPT !.farm_id = farm_id] ELSE hit
             new == [id |-> freshId, external_id |-> external_id,
                     name |-> IF name_hint # "" THEN name_hint
                              ELSE IF external_id # "" THEN external_id ELSE "Auto herd",
                     farm_id |-> farm_id]
         IN  IF found # {}
             THEN [groups |-> (groups \ {hit}) \cup {set}, group |-> set]
             ELSE [groups |-> groups \cup {new}, group |-> new]

\* get_or_create_group: the table after the call and the Group returned
\* (NoGroup for None); "" is None, 0 is no farm
get_or_create_group(groups, external_id, farm_id, name_hint, freshId) ==
    IF external_id = "" /\ name_hint = "" THEN [groups |-> groups, group |-> NoGroup]
    ELSE LET found == {g \in groups : external_id # "" /\ g.external_id = external_id}
             hit == CHOOSE g \in found : TRUE
             set == IF farm_id # 0 /\ hit.farm_id = 0 THEN [hit EXCEPT !.farm_id = farm_id] ELSE hit
             new == [id |-> freshId, external_id |-> external_id,
                     name |-> IF name_hint # "" THEN name_hint
                              ELSE IF external_id # "" THEN external_id ELSE "Auto herd",
                     farm_id |-> farm_id]
         IN  IF found # {}
             THEN [groups |-> (groups \ {hit}) \cup {set}, group |-> set]
             ELSE [groups |-> groups \cup {new}, group |-> new]

\* get_or_create_animal writing the capture's farm and group as they are
get_or_create_animal_nulling(animals, rfid, farm_id, group, freshId) ==
    IF rfid = "" /\ group.id = 0 THEN [animals |-> animals, animal |-> NoAnimal]
    ELSE LET found == {a \in animals : rfid # "" /\ a.rfid = rfid}
             hit == CHOOSE a \in found : TRUE
             set == [hit EXCEPT !.group_id = group.id, !.farm_id = farm_id]
             new == [id |-> freshId, rfid |-> rfid, farm_id |-> farm_id, group_id |-> group.id]
         IN  IF found # {}
             THEN [animals |-> (animals \ {hit}) \cup {set}, animal |-> set]
             ELSE [animals |-> animals \cup {new}, animal |-> new]

\* get_or_create_animal: the table after the call and the Animal returned
get_or_create_animal(animals, rfid, farm_id, group, freshId) ==
    IF rfid = "" /\ group.id = 0 THEN [animals |-> animals, animal |-> NoAnimal]
    ELSE LET found == {a \in animals : rfid # "" /\ a.rfid = rfid}
             hit == CHOOSE a \in found : TRUE
             regrouped == IF group.id # 0 /\ hit.group_id # group.id
                          THEN [hit EXCEPT !.group_id = group.id] ELSE hit
             set == IF farm_id # 0 /\ regrouped.farm_id # farm_id
                    THEN [regrouped EXCEPT !.farm_id = farm_id] ELSE regrouped
             new == [id |-> freshId, rfid |-> rfid, farm_id |-> farm_id, group_id |-> group.id]
         IN  IF found # {}
             THEN [animals |-> (animals \ {hit}) \cup {set}, animal |-> set]
             ELSE [animals |-> animals \cup {new}, animal |-> new]

\* what a capture's metadata may say: group_ID, group_name, Animal_RFID, and
\* the farm its GPS point resolves to
GroupExternalIds == {"", "H1"}
GroupNames == {"", "north"}
Rfids == {"", "R1"}
CaptureFarms == {0, 1, 2}

InitHerd ==
    /\ scans = {}
    /\ devices = {}
    /\ assets = {}
    /\ events = {}
    /\ logs = <<>>
    /\ nextId = 1
    /\ storage = [k \in Keys |-> "none"]
    /\ tx = [p \in Procs |-> NoTx]
    /\ resp = Silent
    /\ sync = SyncIdle
    /\ gate = GateIdle
    /\ calc = [pc |-> "herd", groups |-> {}, animals |-> {}, n |-> 0, nextId |-> 1,
               last |-> NoCapture]

\* the group and animal resolution of ingest_scan_from_payload for a new
\* capture, and the references its Scan gets
HerdCapture(external_id, group_name, rfid, farm_id) ==
    /\ calc.pc = "herd"
    /\ calc.n < MaxCaptures
    /\ LET name_hint == IF group_name # "" THEN group_name ELSE external_id
           g == get_or_create_group(calc.groups, external_id, farm_id, name_hint, calc.nextId)
           made == Cardinality(g.groups) - Cardinality(calc.groups)
           a == get_or_create_animal(calc.animals, rfid,
                                     IF farm_id # 0 THEN farm_id ELSE g.group.farm_id,
                                     g.group, calc.nextId + made)
           born == Cardinality(a.animals) - Cardinality(calc.animals)
       IN  calc' = [pc |-> "herd", groups |-> g.groups, animals |-> a.animals,
                    n |-> calc.n + 1, nextId |-> calc.nextId + made + born,
                    last |-> [external_id |-> external_id, group_name |-> group_name,
                              rfid |-> rfid, farm_id |-> farm_id,
                              group_id |-> g.group.id, animal_id |-> a.animal.id]]
    /\ UNCHANGED <<dbvars, storage, tx, resp, sync, gate>>

NextHerd ==
    \E external_id \in GroupExternalIds, group_name \in GroupNames, rfid \in Rfids,
       farm_id \in CaptureFarms : HerdCapture(external_id, group_name, rfid, farm_id)

SpecHerd == InitHerd /\ [][NextHerd]_vars

(***************************************************************************)
(* Properties of the entity resolver (SpecHerd)                            *)
(***************************************************************************)
GroupById(groups, id) == CHOOSE g \in groups : g.id = id
AnimalById(animals, id) == CHOOSE a \in animals : a.id = id

\* C21: every Group stays, a Group whose farm is set keeps it whatever farm
\* the capture resolves to, and a Group without farm that the capture finds
\* by its external id gets the capture's farm when that is set.
GroupFarmIsBackfillOnly ==
    [][\A g \in calc.groups :
          /\ \E h \in calc'.groups : h.id = g.id
          /\ LET h == GroupById(calc'.groups, g.id)
                 found == calc'.last.external_id # "" /\ g.external_id = calc'.last.external_id
             IN  /\ g.farm_id # 0 => h.farm_id = g.farm_id
                 /\ (g.farm_id = 0 /\ found) => h.farm_id = calc'.last.farm_id
                 /\ (g.farm_id = 0 /\ ~found) => h.farm_id = 0
      ]_vars

\* the last capture named herd H1 from inside farm 2, and H1, which had
\* been given farm 1, is the capture's group and still of farm 1
GroupKeptItsFarm ==
    /\ calc.pc = "herd"
    /\ calc.last.external_id = "H1"
    /\ calc.last.farm_id = 2
    /\ \E g \in calc.groups : g.id = calc.last.group_id /\ g.external_id = "H1" /\ g.farm_id = 1

\* C22: at most one Group per external id; captures that give a name and no
\* external id share the one Group of that name; a capture with neither has
\* no Group.
GroupIdentity ==
    calc.pc = "herd" =>
        /\ \A g, h \in calc.groups :
              (g.external_id # "" /\ g.external_id = h.external_id) => g = h
        /\ \A g, h \in calc.groups :
              (g.external_id = "" /\ h.external_id = "" /\ g.name = h.name) => g = h
        /\ (calc.n > 0 /\ calc.last.external_id = "" /\ calc.last.group_name = "")
              => calc.last.group_id = 0

\* C23: every Animal stays and at most one Animal has an RFID; the Animal the
\* capture's RFID finds gets the capture's group when there is one and the
\* capture's farm (the resolved farm, else the group's) when there is one,
\* and keeps what it had otherwise; no other Animal changes; a capture with
\* neither RFID nor group has no Animal and adds none.
AnimalTrackingCorrects ==
    [][/\ \A a, b \in calc'.animals : (a.rfid # "" /\ a.rfid = b.rfid) => a = b
       /\ \A a \in calc.animals :
            /\ \E b \in calc'.animals : b.id = a.id
            /\ LET b == AnimalById(calc'.animals, a.id)
                   c == calc'.last
                   grp == IF c.group_id = 0 THEN NoGroup ELSE GroupById(calc'.groups, c.group_id)
                   farm == IF c.farm_id # 0 THEN c.farm_id ELSE grp.farm_id
               IN  IF c.rfid # "" /\ a.rfid = c.rfid
                   THEN /\ c.animal_id = a.id
                        /\ b.group_id = IF c.group_id # 0 THEN c.group_id ELSE a.group_id
                        /\ b.farm_id = IF farm # 0 THEN farm ELSE a.farm_id
                   ELSE b = a
       /\ (calc'.last.rfid = "" /\ calc'.last.group_id = 0)
            => (calc'.last.animal_id = 0 /\ calc'.animals = calc.animals)
      ]_vars

\* the last capture carried RFID R1, no group and no farm, and the Animal
\* R1 still has the group and the farm it had
AnimalKeptGroupAndFarm ==
    /\ calc.pc = "herd"
    /\ calc.last.rfid = "R1"
    /\ calc.last.group_id = 0
    /\ calc.last.farm_id = 0
    /\ \E a \in calc.animals :
          a.id = calc.last.animal_id /\ a.rfid = "R1" /\ a.group_id # 0 /\ a.farm_id # 0

(***************************************************************************)
(* Normalisation of a stored meta.json on its own: _apply_ingest_defaults  *)
(* and _normalize_capture_id.  Text that is taken apart is a sequence of   *)
(* characters; "sup2" stands for the character U+00B2.                     *)
(***************************************************************************)
Absent == [t |-> "absent"]               \* the key is not in the dict
Str(chars) == [t |-> "str", chars |-> chars]
IsoTime(at) == [t |-> "isotime", at |-> at]       \* datetime.isoformat() + "Z"
Dict(fields) == [t |-> "dict", fields |-> fields]
DecimalDigits == {"0", "1", "2", "3", "4", "5", "6", "7", "8", "9"}    \* \d, as far as used here
DigitChars == DecimalDigits \cup {"sup2"}                               \* str.isdigit()
DigitText == <<"0", "1", "2", "3", "4", "5", "6", "7", "8", "9">>
CapPrefix == <<"c", "a", "p", "_">>

\* str(n) for n >= 0
RECURSIVE StrOfInt(_)
StrOfInt(n) == IF n < 10 THEN <<DigitText[n + 1]>>
               ELSE Append(StrOfInt(n \div 10), DigitText[(n % 10) + 1])

\* bool(value) is False
Falsy(v) ==
    \/ v.t \in {"absent", "null"}
    \/ (v.t = "text" /\ v.s = "")
    \/ (v.t = "str" /\ v.chars = <<>>)
    \/ (v.t = "num" /\ v.v = 0)
    \/ (v.t = "dict" /\ \A k \in DOMAIN v.fields : v.fields[k] = Absent)

\* dict.get(key) and  a or b
Get(d, key) == IF d[key] = Absent THEN Null ELSE d[key]
Or(a, b) == IF Falsy(a) THEN b ELSE a

\* str.isdigit() and re "^\d+$" on a sequence of characters
IsDigit(s) == s # <<>> /\ \A i \in DOMAIN s : s[i] \in DigitChars
IsDecimal(s) == s # <<>> /\ \A i \in DOMAIN s : s[i] \in DecimalDigits

\* CAPTURE_ID_PATTERN.match(value)
MatchesCapturePattern(s) ==
    StartsWith(s, CapPrefix) /\ IsDecimal(SubSeq(s, Len(CapPrefix) + 1, Len(s)))

\* re.findall(r"\d+", value)[0], <<>> when there is none
FirstDigits(s) ==
    LET at == {i \in DOMAIN s : s[i] \in DecimalDigits}
        from == CHOOSE i \in at : \A j \in at : i <= j
        upto == CHOOSE j \in from..Len(s) :
                    /\ \A k \in from..j : s[k] \in DecimalDigits
                    /\ (j = Len(s) \/ s[j + 1] \notin DecimalDigits)
    IN  IF at = {} THEN <<>> ELSE SubSeq(s, from, upto)

\* ingest_key.rstrip("/").split("/")[-1]
RECURSIVE Rstrip(_)
Rstrip(s) == IF s # <<>> /\ s[Len(s)] = "/" THEN Rstrip(SubSeq(s, 1, Len(s) - 1)) ELSE s
LastSegment(ingest_key) ==
    LET s == Rstrip(ingest_key) IN SubSeq(s, LastSlash(s) + 1, Len(s))

\* _normalize_capture_id at time now (unix seconds)
_normalize_capture_id(value, ingest_key, now) ==
    IF value.t = "str" /\ MatchesCapturePattern(value.chars) THEN value
    ELSE LET seg == LastSegment(ingest_key)
             fromValue == IF value.t = "str" THEN FirstDigits(value.chars) ELSE <<>>
             fromKey == IF StartsWith(seg, CapPrefix)
                           /\ IsDigit(SubSeq(seg, Len(CapPrefix) + 1, Len(seg)))
                        THEN SubSeq(seg, Len(CapPrefix) + 1, Len(seg))
                        ELSE IF IsDigit(seg) THEN seg ELSE <<>>
             candidate == IF fromValue # <<>> THEN fromValue
                          ELSE IF fromKey # <<>> THEN fromKey
                          ELSE StrOfInt(now)
         IN  Str(CapPrefix \o candidate)

\* obj.lower().endswith(IMAGE_EXTENSIONS) for the object names used here
ImageNames == {"image.jpg", "mask.png", "bf.png", "foo.jpg"}
\* _pick_image_relpath
_pick_image_relpath(objects) ==
    LET at == {i \in DOMAIN objects : objects[i] \in ImageNames}
    IN  IF at # {} THEN Text(objects[CHOOSE i \in at : \A j \in at : i <= j])
        ELSE IF objects # <<>> THEN Text(objects[1]) ELSE Null

\* dict.setdefault(key, default) on the fields of a nested object
SetDefault(fields, key, default) ==
    IF fields[key] = Absent THEN [fields EXCEPT ![key] = default] ELSE fields

NoFiles == [image_relpath |-> Absent]
NoProbe == [model |-> Absent, frequency_mhz |-> Absent]
NoFirmware == [app_version |-> Absent, pi_os |-> Absent]
ZeroSha == "0000"       \* "0" * 64
GoodSha == "ab12"       \* some text of 64 characters

\* captured_at stamped anew by every call
CapturedAtRefreshed(captured_at, now) == IsoTime(now)

\* if not captured_at: captured_at = datetime.utcnow().isoformat() + "Z"
CapturedAtOrNow(captured_at, now) == IF Falsy(captured_at) THEN IsoTime(now) ELSE captured_at

\* _apply_ingest_defaults at time now: the dict it returns
_apply_ingest_defaults(meta_json, ingest_key, objects, now) ==
    LET captured_at == Or(Or(Get(meta_json, "captured_at"), Get(meta_json, "capturedAtIso")),
                          Get(meta_json, "capturedAt"))
        image_sha == Or(Get(meta_json, "image_sha256"), Get(meta_json, "imageSha256"))
        files == Or(Get(meta_json, "files"), Dict(NoFiles)).fields
        probe == Or(Get(meta_json, "probe"), Dict(NoProbe)).fields
        firmware == Or(Get(meta_json, "firmware"), Dict(NoFirmware)).fields
        numeric == apply_ingest_defaults([f \in MeasureFields |-> meta_json[f]])
        set == [meta_version |-> Text("1.0.0"),
                capture_id |-> _normalize_capture_id(
                                   Or(Get(meta_json, "capture_id"), Get(meta_json, "captureId")),
                                   ingest_key, now),
                captured_at |-> CapturedAtOrNow(captured_at, now),
                device_code |-> Or(Or(Get(meta_json, "device_code"), Get(meta_json, "deviceId")),
                                   Text("unknown-device")),
                image_sha256 |-> IF image_sha.t = "text" /\ image_sha.s \in {ZeroSha, GoodSha}
                                 THEN image_sha ELSE Text(ZeroSha),
                files |-> Dict([files EXCEPT !.image_relpath =
                                  IF Falsy(@) THEN Or(_pick_image_relpath(objects), Text("image.jpg"))
                                  ELSE @]),
                probe |-> Dict(SetDefault(SetDefault(probe, "model", Text("unknown-probe")),
                                          "frequency_mhz", Num(0))),
                firmware |-> Dict(SetDefault(SetDefault(firmware, "app_version", Text("0.0.0")),
                                             "pi_os", Text("unknown"))),
                clarity |-> IF Get(meta_json, "clarity") = Null THEN Text("bad")
                            ELSE meta_json["clarity"],
                usability |-> IF Get(meta_json, "usability") = Null THEN Text("bad")
                              ELSE meta_json["usability"]]
    IN  [k \in DOMAIN meta_json |->
            IF k \in DOMAIN set THEN set[k]
            ELSE IF k \in MeasureFields THEN numeric[k]
            ELSE meta_json[k]]

\* the keys of a meta.json that the normaliser reads or writes
MetaKeys ==
    {"meta_version", "metaVersion", "capture_id", "captureId", "captured_at", "capturedAtIso",
     "capturedAt", "device_code", "deviceId", "image_sha256", "imageSha256", "files", "probe",
     "firmware", "clarity", "usability"} \cup MeasureFields
EmptyMeta == [k \in MetaKeys |-> Absent]          \* {}

\* what a stored meta.json may hold, key by key: capture ids that match the
\* pattern, carry digits, carry none, are empty, null or a number; and a
\* legacy blob that uses the older key names
NormMetas ==
    LET cids == {Absent, Null, Num(78), Str(<<>>), Str(<<"c", "a", "p", "_", "7">>),
                 Str(<<"s", "7", "8", "x", "9">>), Str(<<"s">>), Str(<<"c", "a", "p", "_">>)}
    IN  {[EmptyMeta EXCEPT !["capture_id"] = cid, !["captured_at"] = at, !["meta_version"] = mv,
                           !["files"] = files, !["IMF"] = imf] :
            cid \in cids, at \in {Absent, Text("2025-10-03T19:20:45Z")},
            mv \in {Absent, Text("1")}, files \in {Absent, Dict([image_relpath |-> Text("x.png")])},
            imf \in {Absent, Text(""), Num(5)}}
        \cup {[EmptyMeta EXCEPT !["captureId"] = Str(<<"s", "7", "8", "x", "9">>),
                                !["capturedAtIso"] = Text("2025-10-03T19:20:45Z"),
                                !["deviceId"] = Text("dev-0001"), !["imageSha256"] = Text(GoodSha),
                                !["probe"] = Dict([NoProbe EXCEPT !.model = Text("L15")]),
                                !["clarity"] = Text("good"), !["usability"] = Null]}
\* capture folders whose name is cap_<digits>, digits, neither, or U+00B2
NormKeys ==
    {<<"r", "/", "c", "a", "p", "_", "8", "/">>, <<"r", "/", "8", "9", "/">>,
     <<"r", "/", "x", "/">>, <<"r", "/", "sup2", "/">>}
Clock == {Now, Now + 1}

InitNorm ==
    /\ scans = {}
    /\ devices = {}
    /\ assets = {}
    /\ events = {}
    /\ logs = <<>>
    /\ nextId = 1
    /\ storage = [k \in Keys |-> "none"]
    /\ tx = [p \in Procs |-> NoTx]
    /\ resp = Silent
    /\ sync = SyncIdle
    /\ gate = GateIdle
    /\ \E meta_json \in NormMetas, ingest_key \in NormKeys,
          objects \in {<<"foo.jpg">>, <<"meta.json">>} :
          calc = [pc |-> "ready", meta_json |-> meta_json, ingest_key |-> ingest_key,
                  objects |-> objects, at |-> 0, first |-> EmptyMeta, second |-> EmptyMeta,
                  again |-> EmptyMeta]

\* _apply_ingest_defaults(meta_json, ingest_key=..., objects=...) at some time
NormCall ==
    /\ calc.pc = "ready"
    /\ \E now \in Clock :
          calc' = [calc EXCEPT !.pc = "once", !.at = now,
                               !.first = _apply_ingest_defaults(calc.meta_json, calc.ingest_key,
                                                                calc.objects, now)]
    /\ UNCHANGED <<dbvars, storage, tx, resp, sync, gate>>

\* no earlier than that: the same call on the same input, and the call on
\* what the first call returned
NormCallAgain ==
    /\ calc.pc = "once"
    /\ \E now \in {t \in Clock : t >= calc.at} :
          calc' = [calc EXCEPT !.pc = "twice",
                               !.second = _apply_ingest_defaults(calc.meta_json, calc.ingest_key,
                                                                 calc.objects, now),
                               !.again = _apply_ingest_defaults(calc.first, calc.ingest_key,
                                                                calc.objects, now)]
    /\ UNCHANGED <<dbvars, storage, tx, resp, sync, gate>>

NextNorm == NormCall \/ NormCallAgain

SpecNorm == InitNorm /\ [][NextNorm]_vars

MinimalPayloadNormalizesTheSame ==
    (calc.pc = "twice" /\ calc.meta_json = EmptyMeta /\ Len(calc.objects) = 1)
        => calc.second = calc.first

\* the value the normaliser is given for the capture id
ProvidedCaptureId == Or(Get(calc.meta_json, "capture_id"), Get(calc.meta_json, "captureId"))
\* the digits the folder name gives: of cap_<digits> or of <digits>
KeyDigits ==
    LET seg == LastSegment(calc.ingest_key)
    IN  IF StartsWith(seg, CapPrefix) THEN SubSeq(seg, Len(CapPrefix) + 1, Len(seg)) ELSE seg

\* C26: a capture id that matches cap_<digits> is kept; otherwise the first
\* digits of the given value are taken; only when the value has no digits,
\* the digits of the ingest key's last segment (cap_<digits> or <digits>);
\* only when that has none either, the clock; and the result always
\* matches cap_<digits>.
CaptureIdRepair ==
    calc.pc \in {"once", "twice"} =>
        LET v == ProvidedCaptureId
            out == calc.first["capture_id"]
            valueDigits == IF v.t = "str" THEN FirstDigits(v.chars)
                           ELSE IF v.t = "num" THEN StrOfInt(v.v) ELSE <<>>
        IN  /\ out.t = "str"
            /\ MatchesCapturePattern(out.chars)
            /\ IF v.t = "str" /\ MatchesCapturePattern(v.chars) THEN out = v
               ELSE IF valueDigits # <<>> THEN out = Str(CapPrefix \o valueDigits)
               ELSE IF IsDecimal(KeyDigits) THEN out = Str(CapPrefix \o KeyDigits)
               ELSE out = Str(CapPrefix \o StrOfInt(calc.at))

(***************************************************************************)
(* Properties of the gate (SpecGate)                                       *)
(***************************************************************************)
\* what the sender of the sample had to get right
HeadersPresent ==
    /\ gate.timestamp.kind \notin {"missing", "empty"}
    /\ gate.signature.kind \notin {"missing", "empty"}
TimestampInWindow ==
    /\ gate.timestamp.kind = "int"
    /\ gate.timestamp.val >= gate.now - HMAC_WINDOW_SECONDS
    /\ gate.timestamp.val <= gate.now + HMAC_WINDOW_SECONDS
SignatureMatches ==
    /\ gate.body.kind # "undecodable"       \* "{timestamp}.{body}" exists as text
    /\ gate.signature = [kind |-> "text", prefix |-> "sha256=",
                         hex |-> [secret |-> HMAC_SECRET, ts |-> gate.timestamp, body |-> gate.body]]

\* C5: the gate lets a request through exactly when its timestamp is an
\* integer within HMAC_WINDOW_SECONDS of the clock, either side, and its
\* signature is "sha256=" followed by the hex HMAC-SHA256 of
\* "{timestamp}.{body}" under the shared secret; every other request with
\* both headers is turned away.
GateAcceptsExactlyValid ==
    gate.pc = "decided" =>
        ((gate.status = 0 /\ gate.verdict = "true") <=> (TimestampInWindow /\ SignatureMatches))

\* a request stamped at the very edge of the window and signed right went through
GateAcceptedAtWindowEdge ==
    /\ gate.pc = "decided"
    /\ gate.status = 0
    /\ gate.timestamp.val = gate.now + HMAC_WINDOW_SECONDS
    /\ SignatureMatches

\* C6: a request without a timestamp or signature header (or with an empty
\* one) is answered 401; one with both headers that fails verification for
\* whatever reason is answered 403; verification never ends in an error
\* nobody handles.
GateAnswers401Or403 ==
    gate.pc = "decided" =>
        /\ ~HeadersPresent => gate.status = 401
        /\ (HeadersPresent /\ ~(TimestampInWindow /\ SignatureMatches)) => gate.status = 403
        /\ gate.verdict \in {"not called", "true", "false"}

(***************************************************************************)
(* Properties of the webhook route and the engine in sequential use        *)
(* (SpecSeq)                                                               *)
(***************************************************************************)
ScanRowsFor(tbl, k) == {s \in tbl : s.ingest_key = k}
CounterOf(tbl, code) ==
    IF \E d \in tbl : d.device_code = code
    THEN (CHOOSE d \in tbl : d.device_code = code).captures_count
    ELSE 0
Appended(n) == Len(logs') = Len(logs) + n /\ SubSeq(logs', 1, Len(logs)) = logs
AnsweredBy(p, status) == resp'.proc = p /\ resp'.msg.code = 200 /\ resp'.msg.status = status
TablesUnchanged == UNCHANGED <<scans, devices, assets, events>>

\* what a request's sender got right, judged from the request alone
HasHeaders(req) ==
    req.timestamp.kind \notin {"missing", "empty"} /\ req.signature.kind \notin {"missing", "empty"}
Authentic(req) ==
    /\ HasHeaders(req)
    /\ req.timestamp.kind = "int"
    /\ req.timestamp.val >= Now - HMAC_WINDOW_SECONDS
    /\ req.timestamp.val <= Now + HMAC_WINDOW_SECONDS
    /\ req.body.kind # "undecodable"
    /\ req.signature = [kind |-> "text", prefix |-> "sha256=",
                        hex |-> [secret |-> HMAC_SECRET, ts |-> req.timestamp, body |-> req.body]]
Unparseable(req) == req.body.kind \in {"undecodable", "notjson"}
LacksField(req) ==
    \/ req.body.kind = "nonobject"
    \/ /\ req.body.kind = "object"
       /\ \/ req.body.bucket = ""
          \/ req.body.ingest_key = <<>>
          \/ req.body.device_code = ""
          \/ req.body.meta_json.kind = "missing"
FailsSchema(req) ==
    /\ req.body.kind = "object"
    /\ ~LacksField(req)
    /\ req.body.meta_json.kind = "dict"
    /\ ~req.body.meta_json.valid

\* C1: an ingest of a key with no Scan answers "success" (created), leaves
\* exactly one Scan for the key, its id in the answer, and raises the
\* device's capture counter by exactly one; an ingest of a key that has a
\* Scan answers "duplicate" (not created) with that Scan's id and changes
\* nothing but the audit log, which gains one row; whatever other ingests
\* ran before.
IngestIsIdempotent ==
    [][\A p \in SeqProcs :
         /\ AnsweredBy(p, "success") =>
               /\ ScanRowsFor(scans, resp'.msg.ingest_key) = {}
               /\ \E s \in scans' : /\ scans' = scans \cup {s}
                                    /\ ScanRowsFor(scans', resp'.msg.ingest_key) = {s}
                                    /\ s.id = resp'.msg.scan_id
               /\ CounterOf(devices', tx[p].dev) = CounterOf(devices, tx[p].dev) + 1
               /\ Appended(1)
               /\ p = DirectProc => resp'.msg.created
         /\ AnsweredBy(p, "duplicate") =>
               /\ \E s \in scans : /\ ScanRowsFor(scans, resp'.msg.ingest_key) = {s}
                                   /\ s.id = resp'.msg.scan_id
               /\ TablesUnchanged
               /\ Appended(1)
               /\ p = DirectProc => ~resp'.msg.created
         /\ \A req \in GoodRequests :
               (p = "w1" /\ WebhookReceive(p, req)
                         /\ ScanRowsFor(scans, req.body.ingest_key) # {})
                  => AnsweredBy(p, "duplicate")
         /\ (p = DirectProc /\ ServiceCheck(p) /\ tx[p].meta.valid
                            /\ ScanRowsFor(scans, tx[p].key) # {})
               => AnsweredBy(p, "duplicate")
      ]_vars

\* a key was ingested, another key after it, and the first key again: the
\* answer is "duplicate" with the id of the one Scan the key has
SecondIngestAnsweredDuplicate ==
    /\ resp.proc \in SeqProcs
    /\ resp.msg.code = 200
    /\ resp.msg.status = "duplicate"
    /\ \E s \in scans : ScanRowsFor(scans, resp.msg.ingest_key) = {s} /\ s.id = resp.msg.scan_id
    /\ Cardinality(scans) = 2
    /\ Len(logs) = 3
    /\ \E d \in devices : d.captures_count = 2

\* C7: a request answered 401 or 403 leaves every table, the audit log
\* included, as it was; and a request whose body cannot be parsed and
\* whose auth headers are missing or invalid is answered 401 or 403.
AuthFailureComesFirst ==
    [][/\ (resp'.proc = "w1" /\ resp'.msg.code \in {401, 403}) => UNCHANGED dbvars
       /\ \A req \in Requests :
             (WebhookReceive("w1", req) /\ Unparseable(req) /\ ~Authentic(req))
                => resp'.msg.code \in {401, 403}
      ]_vars

\* C8: an authenticated request whose meta_json fails the schema is
\* answered 400 with the violation message, adds exactly one audit row, of
\* status 400 with that message and the request's ingest key, and creates
\* no Scan, Device, Asset or ScanEvent.
SchemaFailureIsLogged400 ==
    [][\A req \in Requests :
         (WebhookReceive("w1", req) /\ Authentic(req) /\ FailsSchema(req)) =>
            /\ resp'.msg.code = 400
            /\ resp'.msg.detail = "Schema validation failed"
            /\ Appended(1)
            /\ logs'[Len(logs')].http_status = 400
            /\ logs'[Len(logs')].error = "Schema validation failed"
            /\ logs'[Len(logs')].ingest_key = req.body.ingest_key
            /\ TablesUnchanged
            /\ tx' = tx
      ]_vars

\* C9: an authenticated request whose body is not JSON, or is JSON without
\* one of bucket, ingest_key, device_code, meta_json, is answered 400, other
\* than the 400 of a schema failure, never 5xx, and creates no Scan.
MalformedInputIs400 ==
    [][\A req \in Requests :
         (WebhookReceive("w1", req) /\ Authentic(req) /\ (Unparseable(req) \/ LacksField(req))) =>
            /\ resp'.msg.code = 400
            /\ resp'.msg.detail # "Schema validation failed"
            /\ scans' = scans
            /\ tx' = tx
      ]_vars

(***************************************************************************)
(* Properties of concurrent ingestion and of the sync (Spec)               *)
(***************************************************************************)
\* C2: no two Scan rows have the same ingest key, whichever webhook calls
\* and syncs ran and however they interleaved.
OneScanPerIngestKey == \A s1, s2 \in scans : s1.ingest_key = s2.ingest_key => s1 = s2

\* a key is committed while another transaction that passed the
\* idempotency check for it is still about to insert
LateInsertOfCommittedKey ==
    \E p \in Procs : /\ tx[p].pc = "flush"
                     /\ ScanRowsFor(scans, tx[p].key) # {}
                     /\ \E d \in devices : d.id = tx[p].devRead.id

\* C3: when two processes ingest the same new key at once, the one that
\* loses the insert is answered like any duplicate; nobody is answered with
\* the raw constraint violation for a key that has its Scan.
LoserAnsweredDuplicate ==
    ~(/\ resp.msg.kind = "http"
      /\ resp.msg.code = 500
      /\ resp.msg.detail = "IntegrityError"
      /\ ScanRowsFor(scans, resp.msg.ingest_key) # {})

SyncReturned == resp'.proc = SyncProc /\ resp'.msg.kind = "sync"
SyncIngested == sync.pc = "ingest" /\ sync'.pc = "loop" /\ sync'.added = sync.added + 1

\* C11: while a sync in add_only mode runs, no Scan, Asset or ScanEvent row
\* disappears, its result reports removed = 0, and each capture it ingests
\* adds exactly one Scan, the one of that capture's key.
AddOnlyNeverDeletes ==
    [][(sync.pc # "idle" /\ sync.mode = "add_only") =>
          /\ scans \subseteq scans'
          /\ assets \subseteq assets'
          /\ events \subseteq events'
          /\ SyncReturned => resp'.msg.removed = 0
          /\ SyncIngested =>
                /\ ScanRowsFor(scans, tx[SyncProc].key) = {}
                /\ \E s \in scans' : scans' = scans \cup {s} /\ s.ingest_key = tx[SyncProc].key
      ]_vars

\* an add_only sync added a capture and returned while a Scan whose capture
\* is gone from storage is still there
AddOnlyKeptStaleScan ==
    /\ resp.proc = SyncProc
    /\ resp.msg.kind = "sync"
    /\ resp.msg.mode = "add_only"
    /\ resp.msg.added = 1
    /\ resp.msg.removed = 0
    /\ \E s \in scans : s.ingest_key = K1 /\ storage[K1] = "none"

\* a turn of the loop meets a failure of the one metadata object at hand:
\* its body is not JSON, or its ingestion is refused by the schema
BadObjectTurn ==
    \/ /\ sync.pc = "loop"
       /\ sync.queue # <<>>
       /\ ScanRowsFor(scans, FolderOf(Head(sync.queue))) = {}
       /\ storage[FolderOf(Head(sync.queue))] = "badjson"
       /\ SyncNext
    \/ /\ sync.pc = "ingest"
       /\ tx[SyncProc].pc = "check"
       /\ ~tx[SyncProc].meta.valid
       /\ ServiceCheck(SyncProc)

\* C12: a failure confined to one metadata object of a sync is added to the
\* result's errors and not raised: the loop goes on with the next object
\* (and so reaches the sweep).
BadObjectIsRecorded ==
    [][BadObjectTurn =>
          /\ sync'.pc = "loop"
          /\ Len(sync'.errors) = Len(sync.errors) + 1
          /\ resp'.proc # SyncProc
      ]_vars

\* C13: when an object-storage access error ends a sync, nothing the run
\* did before is persisted: no capture ingested earlier in the run stays.
StorageErrorCommitsNothing ==
    [][(/\ sync.pc # "idle"
        /\ resp'.proc = SyncProc
        /\ resp'.msg.kind = "http"
        /\ resp'.msg.detail = "AWS error")
          => /\ sync.added = 0
             /\ sync'.pc = "idle"
      ]_vars

\* C16: at all times no two Asset rows share bucket and object key, a
\* capture ingested twice or added again after the sweep deleted it included.
AssetKeysAreUnique ==
    \A a, b \in assets : (a.bucket = b.bucket /\ a.object_key = b.object_key) => a = b

\* capture K1 was ingested, swept, put back and ingested again: the sync
\* that just returned added it, writing the last audit row, and an earlier
\* audit row tells of its first ingestion
AssetsAddedAgainAfterSweep ==
    /\ resp.proc = SyncProc
    /\ resp.msg.kind = "sync"
    /\ resp.msg.added = 1
    /\ logs # <<>>
    /\ logs[Len(logs)].ingest_key = K1
    /\ \E i \in 1..(Len(logs) - 1) : logs[i].ingest_key = K1 /\ logs[i].http_status = 200
    /\ \E a \in assets : a.bucket = Bucket /\ a.object_key = Append(K1, "image.jpg")

\* C17: every attempt that enters ingest_scan_from_payload appends, by the
\* time it ends, exactly one IngestionLog row carrying its capture id and
\* ingest key, whether it creates a Scan, meets a duplicate or fails; and a
\* row once written is never changed or removed.
EveryAttemptLogsOnce ==
    [][/\ Len(logs') >= Len(logs)
       /\ \A i \in DOMAIN logs : logs'[i] = logs[i]
       /\ \A p \in Procs :
            (tx[p].pc # "idle" /\ tx[p].via = "service" /\ tx'[p].pc = "idle")
               => /\ Len(logs') = Len(logs) + 1
                  /\ logs'[Len(logs')].ingest_key = tx[p].key
                  /\ logs'[Len(logs')].capture_id = tx[p].meta.capture_id
      ]_vars

\* C18: a Scan is created with status "ingested" and no operator; its
\* status changes only to "graded" and only in a grade request answered 200
\* to an admin or technician who has access to it (admin, a farm of the
\* user's, or the scan's operator); and a Scan row disappears only in the
\* sweep that ends an add_remove sync.
ScanLifecycle ==
    [][/\ \A s \in scans' :
            (\A o \in scans : o.id # s.id) => (s.status = "ingested" /\ s.operator_id = 0)
       /\ \A o \in scans, s \in scans' :
            (o.id = s.id /\ o.status # s.status)
               => /\ s.status = "graded"
                  /\ resp'.proc = GraderProc
                  /\ resp'.msg.code = 200
                  /\ resp'.msg.scan_id = o.id
                  /\ \E u \in Graders :
                        /\ u.id = resp'.msg.user
                        /\ u.role \in {"admin", "technician"}
                        /\ \/ u.role = "admin"
                           \/ (o.farm_id # 0 /\ o.farm_id \in u.farms)
                           \/ o.operator_id = u.id
       /\ \A o \in scans :
            (\A s \in scans' : s.id # o.id)
               => /\ sync.pc = "loop"
                  /\ sync.queue = <<>>
                  /\ sync.mode = "add_remove"
                  /\ resp'.proc = SyncProc
                  /\ resp'.msg.kind = "sync"
                  /\ resp'.msg.removed >= 1
      ]_vars

\* the technician of farm 1 has just graded the scan taken inside farm 1
TechnicianGradedFarmScan ==
    /\ resp.proc = GraderProc
    /\ resp.msg.code = 200
    /\ resp.msg.user = 102
    /\ \E s \in scans : s.id = resp.msg.scan_id /\ s.status = "graded" /\ s.farm_id = 1

\* C19: from one database state, one capture (bucket, ingest key, device
\* code, objects, schema-valid metadata) ingested by POST /ingest/webhook
\* and by ingest_scan_from_payload gives the same Device, Asset, Scan and
\* ScanEvent rows, the event's source apart.
EntryPointsWriteSameRows ==
    \A p \in Procs :
        tx[p].pc = "commit" =>
            LET t == tx[p]
                other == [t EXCEPT !.via = IF t.via = "service" THEN "webhook" ELSE "service"]
                mine == Ingested(t, nextId)
                theirs == Ingested(other, nextId)
            IN  /\ mine.device = theirs.device
                /\ mine.assets = theirs.assets
                /\ mine.scan = theirs.scan
                /\ [mine.event EXCEPT !.source = ""] = [theirs.event EXCEPT !.source = ""]

\* C27: the sweep that ends an add_remove sync over a prefix leaves every
\* Scan whose ingest key does not start with the prefix, and every Scan
\* whose ingest key the run observed, where it is, with its Assets and
\* ScanEvents; and it leaves the devices and the audit log as they are.
SweepTouchesOnlyStaleUnderPrefix ==
    [][(sync.pc = "loop" /\ sync.queue = <<>> /\ sync'.pc = "idle")
          => /\ \A s \in scans :
                   (~StartsWith(s.ingest_key, sync.prefix) \/ s.ingest_key \in sync.synced)
                      => /\ s \in scans'
                         /\ \A a \in assets : a.id \in OwnedAssetIds(s) => a \in assets'
                         /\ \A e \in events : e.scan_id = s.id => e \in events'
             /\ devices' = devices
             /\ logs' = logs
      ]_vars

\* the metadata files of a run accounted for so far: counted as added,
\* duplicate or error, being ingested, or still to come
Accounted(sy) ==
    sy.added + sy.duplicates + Len(sy.errors) + Len(sy.queue) + (IF sy.pc = "ingest" THEN 1 ELSE 0)

\* C28: a run starts with the metadata files listed under its prefix and
\* zero counts; each file moves to exactly one of added, duplicates and
\* errors, and its folder to the observed keys; added grows exactly when
\* the run's own ingestion creates a Scan; a file whose capture has a Scan
\* is counted a duplicate whatever storage holds for it now; and the run
\* returns these counts, with the number of distinct folders observed.
SyncAccounting ==
    [][/\ (sync.pc = "idle" /\ sync'.pc # "idle")
            => /\ sync'.queue = _list_meta_keys(sync'.prefix)
               /\ sync'.added = 0 /\ sync'.duplicates = 0 /\ sync'.errors = <<>>
               /\ sync'.synced = {}
       /\ (sync.pc # "idle" /\ sync'.pc # "idle")
            => /\ Accounted(sync') = Accounted(sync)
               /\ sync'.synced = sync.synced \cup
                     {FolderOf(sync.queue[i]) : i \in 1..(Len(sync.queue) - Len(sync'.queue))}
               /\ (sync'.added = sync.added + 1)
                     <=> /\ tx[SyncProc].pc = "commit"
                         /\ tx'[SyncProc].pc = "idle"
                         /\ ScanRowsFor(scans, tx[SyncProc].key) = {}
                         /\ ScanRowsFor(scans', tx[SyncProc].key) # {}
               /\ sync'.added \in {sync.added, sync.added + 1}
       /\ (sync.pc = "loop" /\ sync.queue # <<>>
             /\ ScanRowsFor(scans, FolderOf(Head(sync.queue))) # {} /\ sync' # sync)
            => /\ sync'.pc = "loop"
               /\ sync'.duplicates = sync.duplicates + 1
               /\ sync'.queue = Tail(sync.queue)
       /\ SyncReturned
            => /\ sync.queue = <<>>
               /\ resp'.msg.added + resp'.msg.duplicates + Len(resp'.msg.errors) = Accounted(sync)
               /\ resp'.msg.added = sync.added
               /\ resp'.msg.synced_ingest_keys = Cardinality(sync.synced)
      ]_vars

\* a run over two capture folders returned having counted one capture a
\* duplicate and the unparseable meta.json of the other an error
SyncCountedDuplicateAndError ==
    /\ resp.proc = SyncProc
    /\ resp.msg.kind = "sync"
    /\ resp.msg.duplicates = 1
    /\ Len(resp.msg.errors) = 1
    /\ resp.msg.added = 0
    /\ resp.msg.synced_ingest_keys = 2

\* C29: after any interleaving of ingestions for one device code, one Device
\* row exists for the code, each step raises its counter by exactly the
\* number of Scans the step created for that device, and the counter never
\* decreases.
ScansMadeFor(code) ==
    {s \in scans' : /\ \A o \in scans : o.id # s.id
                    /\ \E d \in devices' : d.id = s.device_id /\ d.device_code = code}

DeviceCounterCountsScans ==
    [][\A code \in {"d1", "d2"} :
          /\ Cardinality({d \in devices' : d.device_code = code}) <= 1
          /\ CounterOf(devices', code) =
                 CounterOf(devices, code) + Cardinality(ScansMadeFor(code))]_vars

\* the Scan was created by a webhook while the running sync was past its
\* listing: after a Scan this run itself has added
MadeBy(s, source) == \E e \in events : e.scan_id = s.id /\ e.source = source
MadeWhileSyncRan(s) ==
    /\ sync.pc = "loop" /\ sync.added >= 1
    /\ MadeBy(s, "webhook")
    /\ \E o \in scans : MadeBy(o, "admin_sync") /\ o.id < s.id
    /\ \A o \in scans : MadeBy(o, "admin_sync") => o.id < s.id

\* C30: the sweep of an add_remove sync does not delete a Scan that a
\* webhook created, after the sync listed the metadata files, for a capture
\* that is in storage (objects and a valid meta.json) under the synced prefix.
SweepSparesStoredCaptures ==
    [][\A s \in scans :
          (/\ \A o \in scans' : o.id # s.id
           /\ MadeWhileSyncRan(s)
           /\ StartsWith(s.ingest_key, sync.prefix))
          => storage[s.ingest_key] # "ok"]_vars

TypeOK ==
    /\ \A s \in scans : s.ingest_key \in Keys /\ s.id \in 1..nextId
    /\ nextId \in Nat
    /\ Len(logs) <= MaxLogRows + MaxSeqRows + MaxSyncRows

====
